---------------------------- MODULE Spec2Model ----------------------------
(***************************************************************************)
(* Model of the launcher's input monitor (input_monitor.c): the three      *)
(* entry points input_monitor_init, input_monitor_check_hotkeys and        *)
(* input_monitor_cleanup, the static state they share, and the environment *)
(* they read: the evdev queues of the opened devices, the monotonic clock  *)
(* and the extern flag backlight_on.                                       *)
(*                                                                         *)
(* One call of input_monitor_check_hotkeys (a "tick") is a run of steps:   *)
(* TickStart, then one ReadEvent per successful read() and one ReadNone    *)
(* per read() that ends a device's while loop, then EndOfTick for the      *)
(* long-hold check.  The clock may advance and events may be queued by the *)
(* kernel between any two steps of a tick; SpecBurst and SpecOrder hold    *)
(* both still while a tick runs.                                           *)
(*                                                                         *)
(* The launcher's menu (main.c: handle_input and the state it selects      *)
(* with) is modelled beside it: one action per gamepad button, under       *)
(* SpecMenu.  The monitor's actions leave the menu alone and the buttons   *)
(* leave the monitor alone: neither file touches the other's state.        *)
(***************************************************************************)
EXTENDS Integers, Sequences, FiniteSets, TLC

(***************************************************************************)
(* Program constants.                                                      *)
(***************************************************************************)
MAX_INPUT_DEVICES == 3
WAKE_DEBOUNCE_MS == 500
LONG_PRESS_MS == 1750
BRIGHTNESS_DEFAULT == 52
BRIGHTNESS_MAX == 100
BRIGHTNESS_MIN == 4
BRIGHTNESS_STEP == 16
BACKLIGHT_SCALE == 255
BACKLIGHT_PERCENT == 100
VOLUME_STEP == 5
MsPerSec == 1000
NsPerMs == 1000000
NoFd == -1
\* main.c: the menu
MAX_SYSTEMS == 4
MAX_GAMES == 256

\* <linux/input.h> event types and codes used by the switch
EV_KEY == 1
EV_SW == 5
BTN_MODE == 316
KEY_POWER == 116
KEY_VOLUMEUP == 115
KEY_VOLUMEDOWN == 114
SW_LID == 0

(***************************************************************************)
(* Bounds of the model.                                                    *)
(***************************************************************************)
\* the clock advances in quanta of QuantumMs milliseconds ...
QuantumMs == 250
\* ... up to MaxQuanta quanta after the start of the model, plus a
\* sub-millisecond offset of SubMsNs nanoseconds
MaxQuanta == 8
SubMsNs == {0, 1}
\* events queued and not yet read, over all devices
MaxPending == 2
\* descriptors the process may hold open besides stdin, stdout and stderr
\* (RLIMIT_NOFILE - 3)
MaxFds == 3
\* event nodes in /dev/input
MaxNodes == 3
\* ROM files of one system under /mnt/games and /mnt/games2
MaxGames == 2

(***************************************************************************)
(* struct timespec and the millisecond arithmetic of lines 117-118,        *)
(* 124-125 and 194-195.                                                    *)
(***************************************************************************)
Timespec(s, n) == [tv_sec |-> s, tv_nsec |-> n]

ZeroTime == Timespec(0, 0)

\* C integer division: truncates toward zero
CDiv(a, b) == IF a >= 0 THEN a \div b ELSE -((-a) \div b)

\* (now.tv_sec - then.tv_sec) * 1000 + (now.tv_nsec - then.tv_nsec) / 1000000
ElapsedMs(now, then) ==
    (now.tv_sec - then.tv_sec) * MsPerSec
        + CDiv(now.tv_nsec - then.tv_nsec, NsPerMs)

\* The monotonic clock is kept as <<quanta, jitter>>; clock_gettime converts
ClockGettime(m) ==
    LET ms == m[1] * QuantumMs
    IN  Timespec(ms \div MsPerSec, (ms % MsPerSec) * NsPerMs + m[2])

\* the clock values not before m (CLOCK_MONOTONIC never goes back)
NotBefore(m) ==
    {m} \cup {<<m[1], j>> : j \in {n \in SubMsNs : n > m[2]}}
        \cup (IF m[1] < MaxQuanta
              THEN {<<m[1] + 1, j>> : j \in SubMsNs}
              ELSE {})


\* the largest sub-millisecond offset
LastSubMs == CHOOSE n \in SubMsNs : \A k \in SubMsNs : k <= n

(***************************************************************************)
(* Devices and events.                                                     *)
(***************************************************************************)
\* device_names[] of input_monitor_init, in its order: Mode, Power, Volume + Lid.
\* C strings are sequences of characters
device_names ==
    << <<"j", "o", "y", "p", "a", "d">>,
       <<"p", "w", "r", "k", "e", "y">>,
       <<"g", "p", "i", "o", "-", "k", "e", "y", "s">> >>

\* strstr(hay, needle) != NULL
StrStr(hay, needle) ==
    \E k \in 0..(Len(hay) - Len(needle)) :
        SubSeq(hay, k + 1, k + Len(needle)) = needle

\* names EVIOCGNAME may report: three that contain one pattern each, ...
JoypadName == <<"x", "_">> \o device_names[1]

PwrkeyName == device_names[2] \o <<"0">>

GpioName == device_names[3]

\* ... and one that contains none
GpioKeyName == <<"g", "p", "i", "o", "-", "k", "e", "y">>

\* descriptors 0, 1 and 2 are stdin, stdout and stderr
FirstFd == 3

\* the numbers open() can return
Fds == FirstFd..(FirstFd + MaxFds - 1)

\* struct input_event; time is the kernel's stamp of the event, left at zero
\* where the stamp plays no part
Event(t, c, v) == [type |-> t, code |-> c, value |-> v, time |-> ZeroTime]

\* the event ev as the kernel queues it at time tv
Stamped(ev, tv) == [ev EXCEPT !.time = tv]

\* value: 0 release, 1 press, 2 autorepeat
ModeEvents == {Event(EV_KEY, BTN_MODE, v) : v \in 0..2}

PowerEvents == {Event(EV_KEY, KEY_POWER, v) : v \in 0..2}

VolumeEvents == {Event(EV_KEY, c, v) : c \in {KEY_VOLUMEUP, KEY_VOLUMEDOWN}, v \in 0..2}

\* value: 1 lid closed, 0 lid open
LidEvents == {Event(EV_SW, SW_LID, v) : v \in 0..1}

\* key events whose code is the number of SW_LID (KEY_RESERVED): the switch
\* of line 100 is on ev.code alone, and case SW_LID takes them
ReservedKeyEvents == {Event(EV_KEY, SW_LID, v) : v \in 0..1}

\* events the switch has no case for: a gamepad button (BTN_SOUTH), and events
\* of another class (EV_ABS, ABS_X) that line 97 drops
OtherEvents == {Event(EV_KEY, 304, 1), Event(3, 0, 1)}

AllEvents == ModeEvents \cup PowerEvents \cup VolumeEvents \cup LidEvents \cup OtherEvents

\* what the device node of a given name reports
DeviceEvents(name) ==
    (IF StrStr(name, device_names[1]) THEN ModeEvents \cup OtherEvents ELSE {})
        \cup (IF StrStr(name, device_names[2]) THEN PowerEvents ELSE {})
        \cup (IF StrStr(name, device_names[3]) THEN VolumeEvents \cup LidEvents \cup ReservedKeyEvents
         ELSE {})

\* the value of `cur` when the last step read no event
NoEvent == Event(-1, -1, -1)

(***************************************************************************)
(* Actions requested from the system (the system() calls) as records.      *)
(***************************************************************************)
Act(name, arg) == [act |-> name, arg |-> arg]

\* system("echo mem > /sys/power/state")
Suspend == Act("Suspend", 0)

\* system("echo <raw> > /sys/class/backlight/backlight/brightness")
SetBrightness(raw) == Act("SetBrightness", raw)

\* system("amixer -q -c 0 sset 'Master' 5%+") and 5%-
AdjustVolume(delta) == Act("AdjustVolume", delta)

\* (int)(current_brightness * 255 / 100)
RawBacklight(level) == CDiv(level * BACKLIGHT_SCALE, BACKLIGHT_PERCENT)

VARIABLES
    \* static state of input_monitor.c
    input_fds, num_devices, power_press_time, last_wake_time,
    power_button_held, mode_button_held, current_brightness,
    \* extern bool backlight_on, owned by the rest of the launcher
    backlight_on,
    \* environment: the names of the event nodes of /dev/input in readdir
    \* order, the evdev queue of each descriptor, CLOCK_MONOTONIC
    present, queue, mono,
    \* the descriptor table of the process: fdtab[fd] is the index in `present`
    \* of the node fd is open on, 0 if fd is closed; the descriptors on which
    \* read() fails with an error other than EAGAIN; how many reads of each
    \* descriptor have failed so (2 stands for two or more); and whether a
    \* close() of a closed descriptor has happened
    fdtab, failing, error_reads, ebadf,
    \* position of the caller in input_monitor_check_hotkeys: pc, and the loop
    \* variable i of line 90
    pc, i,
    \* what the last step did: the value it returned ("none" if it did not
    \* return, "void" for input_monitor_cleanup), the system() calls it made, the event it read, and for that
    \* event whether the power button was held and whether less than
    \* WAKE_DEBOUNCE_MS had passed since last_wake_time when it was read
    ret, emitted, cur, was_held, in_window,
    \* history: ticks that returned true since the last power press edge, what
    \* last set last_wake_time, and the kernel's stamp of the event of the last
    \* power press edge
    cycle_shutdowns, wake_cause, edge_stamp,
    \* static state of main.c: the menu's selection, systems[k].game_count as
    \* game_count[k], and the system and game index that the last button
    \* handled passed to launch_game (NoLaunch if it launched nothing)
    current_system, current_game, in_game_list, game_count, launched

vars == <<input_fds, num_devices, power_press_time, last_wake_time,
          power_button_held, mode_button_held, current_brightness,
          backlight_on, present, queue, mono, fdtab, failing, error_reads,
          ebadf, pc, i,
          ret, emitted, cur, was_held, in_window, cycle_shutdowns, wake_cause, edge_stamp,
          current_system, current_game, in_game_list, game_count, launched>>

menu == <<current_system, current_game, in_game_list, game_count, launched>>

handles == <<fdtab, failing, error_reads, ebadf>>

progvars == <<power_press_time, last_wake_time, power_button_held,
              mode_button_held, current_brightness>>

\* the number of events queued and not yet read
Pending == Cardinality(UNION {{fd} \X (1..Len(queue[fd])) : fd \in Fds})

EmptyQueues == [fd \in Fds |-> <<>>]

NoLaunch == [sys |-> -1, game |-> -1]

\* main.c lines 56-58 and 65: the menu as the static initialisers leave it
MenuStart ==
    /\ current_system = 0
    /\ current_game = 0
    /\ in_game_list = FALSE
    /\ game_count = [k \in 0..(MAX_SYSTEMS - 1) |-> 0]
    /\ launched = NoLaunch

(***************************************************************************)
(* The body of the while loop of input_monitor_check_hotkeys, lines 97-186,*)
(* for one event ev read at clock value `now`; `later` is the clock value  *)
(* read after a system() call.  The result holds the new static state, the *)
(* system() calls made (out) and whether line 122 returned true (shutdown).*)
(***************************************************************************)
State ==
    [mode |-> mode_button_held, held |-> power_button_held,
     press |-> power_press_time, wake |-> last_wake_time,
     bright |-> current_brightness, out |-> <<>>, shutdown |-> FALSE]

\* OnMode that takes a repeat (value 2) for a release
OnMode_PressOnly(st, ev) == [st EXCEPT !.mode = (ev.value = 1)]

\* case BTN_MODE, lines 102-104
OnMode(st, ev) == [st EXCEPT !.mode = (ev.value = 1 \/ ev.value = 2)]

\* OnPower that forgets line 130: a Suspend leaves last_wake_time alone
OnPower_NoWakeStamp(st, ev, now, later) ==
    IF ev.value = 1 /\ ~st.held
    THEN [st EXCEPT !.press = now, !.held = TRUE]
    ELSE IF ev.value = 0 /\ st.held
    THEN IF ElapsedMs(now, st.press) >= LONG_PRESS_MS
         THEN [st EXCEPT !.held = FALSE, !.shutdown = TRUE]
         ELSE IF ElapsedMs(now, st.wake) < WAKE_DEBOUNCE_MS
         THEN [st EXCEPT !.held = FALSE]
         ELSE [st EXCEPT !.held = FALSE, !.out = <<Suspend>>]
    ELSE st

\* OnPower with the debounce check of line 126 moved before the long-press
\* check of line 121
OnPower_DebounceFirst(st, ev, now, later) ==
    IF ev.value = 1 /\ ~st.held
    THEN [st EXCEPT !.press = now, !.held = TRUE]
    ELSE IF ev.value = 0 /\ st.held
    THEN IF ElapsedMs(now, st.wake) < WAKE_DEBOUNCE_MS
         THEN [st EXCEPT !.held = FALSE]
         ELSE IF ElapsedMs(now, st.press) >= LONG_PRESS_MS
         THEN [st EXCEPT !.held = FALSE, !.shutdown = TRUE]
         ELSE [st EXCEPT !.held = FALSE, !.out = <<Suspend>>, !.wake = later]
    ELSE st

\* OnPower with a debounce window of half the length
OnPower_ShortWindow(st, ev, now, later) ==
    IF ev.value = 1 /\ ~st.held
    THEN [st EXCEPT !.press = now, !.held = TRUE]
    ELSE IF ev.value = 0 /\ st.held
    THEN IF ElapsedMs(now, st.press) >= LONG_PRESS_MS
         THEN [st EXCEPT !.held = FALSE, !.shutdown = TRUE]
         ELSE IF 2 * ElapsedMs(now, st.wake) < WAKE_DEBOUNCE_MS
         THEN [st EXCEPT !.held = FALSE]
         ELSE [st EXCEPT !.held = FALSE, !.out = <<Suspend>>, !.wake = later]
    ELSE st

\* OnPower without the debounce check of lines 124-127
OnPower_NoDebounce(st, ev, now, later) ==
    IF ev.value = 1 /\ ~st.held
    THEN [st EXCEPT !.press = now, !.held = TRUE]
    ELSE IF ev.value = 0 /\ st.held
    THEN IF ElapsedMs(now, st.press) >= LONG_PRESS_MS
         THEN [st EXCEPT !.held = FALSE, !.shutdown = TRUE]
         ELSE [st EXCEPT !.held = FALSE, !.out = <<Suspend>>, !.wake = later]
    ELSE st

\* OnPower without the !power_button_held of line 108: every press event
\* stamps power_press_time
OnPower_Restamp(st, ev, now, later) ==
    IF ev.value = 1
    THEN [st EXCEPT !.press = now, !.held = TRUE]
    ELSE IF ev.value = 0 /\ st.held
    THEN LET held_ms == ElapsedMs(now, st.press)
             last_wake_ms == ElapsedMs(now, st.wake)
         IN  IF held_ms >= LONG_PRESS_MS
             THEN [st EXCEPT !.held = FALSE, !.shutdown = TRUE]
             ELSE IF last_wake_ms < WAKE_DEBOUNCE_MS
             THEN [st EXCEPT !.held = FALSE]
             ELSE [st EXCEPT !.held = FALSE, !.out = <<Suspend>>, !.wake = later]
    ELSE st

\* OnPower that stamps last_wake_time when the debounce drops a press
OnPower_DropStamps(st, ev, now, later) ==
    IF ev.value = 1 /\ ~st.held
    THEN [st EXCEPT !.press = now, !.held = TRUE]
    ELSE IF ev.value = 0 /\ st.held
    THEN LET held_ms == ElapsedMs(now, st.press)
             last_wake_ms == ElapsedMs(now, st.wake)
         IN  IF held_ms >= LONG_PRESS_MS
             THEN [st EXCEPT !.held = FALSE, !.shutdown = TRUE]
             ELSE IF last_wake_ms < WAKE_DEBOUNCE_MS
             THEN [st EXCEPT !.held = FALSE, !.wake = now]
             ELSE [st EXCEPT !.held = FALSE, !.out = <<Suspend>>, !.wake = later]
    ELSE st

\* OnPower that takes the time of an edge from the stamp of the event
OnPower_EventTime(st, ev, now, later) ==
    IF ev.value = 1 /\ ~st.held
    THEN [st EXCEPT !.press = ev.time, !.held = TRUE]
    ELSE IF ev.value = 0 /\ st.held
    THEN LET held_ms == ElapsedMs(ev.time, st.press)
             last_wake_ms == ElapsedMs(now, st.wake)
         IN  IF held_ms >= LONG_PRESS_MS
             THEN [st EXCEPT !.held = FALSE, !.shutdown = TRUE]
             ELSE IF last_wake_ms < WAKE_DEBOUNCE_MS
             THEN [st EXCEPT !.held = FALSE]
             ELSE [st EXCEPT !.held = FALSE, !.out = <<Suspend>>, !.wake = later]
    ELSE st

\* case KEY_POWER, lines 106-133
OnPower(st, ev, now, later) ==
    IF ev.value = 1 /\ ~st.held
    THEN [st EXCEPT !.press = now, !.held = TRUE]
    ELSE IF ev.value = 0 /\ st.held
    THEN LET held_ms == ElapsedMs(now, st.press)
             last_wake_ms == ElapsedMs(now, st.wake)
         IN  IF held_ms >= LONG_PRESS_MS
             THEN [st EXCEPT !.held = FALSE, !.shutdown = TRUE]
             ELSE IF last_wake_ms < WAKE_DEBOUNCE_MS
             THEN [st EXCEPT !.held = FALSE]
             ELSE [st EXCEPT !.held = FALSE, !.out = <<Suspend>>, !.wake = later]
    ELSE st

\* OnVolumeUp with <= for < in line 141: one step too many at the top
OnVolumeUp_NoClamp(st, ev, backlight) ==
    IF ev.value # 1 THEN st
    ELSE IF st.mode /\ backlight
    THEN IF st.bright <= BRIGHTNESS_MAX
         THEN [st EXCEPT !.bright = st.bright + BRIGHTNESS_STEP,
                         !.out = <<SetBrightness(RawBacklight(st.bright + BRIGHTNESS_STEP))>>]
         ELSE st
    ELSE [st EXCEPT !.out = <<AdjustVolume(VOLUME_STEP)>>]

\* OnVolumeUp that tests mode_button_held alone in line 138
OnVolumeUp_IgnoreBacklight(st, ev, backlight) ==
    IF ev.value # 1 THEN st
    ELSE IF st.mode
    THEN IF st.bright < BRIGHTNESS_MAX
         THEN [st EXCEPT !.bright = st.bright + BRIGHTNESS_STEP,
                         !.out = <<SetBrightness(RawBacklight(st.bright + BRIGHTNESS_STEP))>>]
         ELSE st
    ELSE [st EXCEPT !.out = <<AdjustVolume(VOLUME_STEP)>>]

\* case KEY_VOLUMEUP, lines 135-155
OnVolumeUp(st, ev, backlight) ==
    IF ev.value # 1 THEN st
    ELSE IF st.mode /\ backlight
    THEN IF st.bright < BRIGHTNESS_MAX
         THEN [st EXCEPT !.bright = st.bright + BRIGHTNESS_STEP,
                         !.out = <<SetBrightness(RawBacklight(st.bright + BRIGHTNESS_STEP))>>]
         ELSE st
    ELSE [st EXCEPT !.out = <<AdjustVolume(VOLUME_STEP)>>]

\* OnVolumeDown with 0 for 4 in line 163: steps below the lowest level
OnVolumeDown_ToZero(st, ev, backlight) ==
    IF ev.value # 1 THEN st
    ELSE IF st.mode /\ backlight
    THEN IF st.bright > 0
         THEN [st EXCEPT !.bright = st.bright - BRIGHTNESS_STEP,
                         !.out = <<SetBrightness(RawBacklight(st.bright - BRIGHTNESS_STEP))>>]
         ELSE st
    ELSE [st EXCEPT !.out = <<AdjustVolume(-VOLUME_STEP)>>]

\* case KEY_VOLUMEDOWN, lines 157-177
OnVolumeDown(st, ev, backlight) ==
    IF ev.value # 1 THEN st
    ELSE IF st.mode /\ backlight
    THEN IF st.bright > BRIGHTNESS_MIN
         THEN [st EXCEPT !.bright = st.bright - BRIGHTNESS_STEP,
                         !.out = <<SetBrightness(RawBacklight(st.bright - BRIGHTNESS_STEP))>>]
         ELSE st
    ELSE [st EXCEPT !.out = <<AdjustVolume(-VOLUME_STEP)>>]

\* OnLid with the power button's debounce applied to the lid
OnLid_Debounced(st, ev, later) ==
    IF ev.value = 1 /\ ElapsedMs(later, st.wake) >= WAKE_DEBOUNCE_MS
    THEN [st EXCEPT !.out = <<Suspend>>, !.wake = later]
    ELSE st

\* case SW_LID, lines 179-185
OnLid(st, ev, later) ==
    IF ev.value = 1
    THEN [st EXCEPT !.out = <<Suspend>>, !.wake = later]
    ELSE st

\* Dispatch without the class filter of line 97
Dispatch_NoFilter(st, ev, now, later, backlight) ==
    CASE ev.code = BTN_MODE -> OnMode(st, ev)
      [] ev.code = KEY_POWER -> OnPower(st, ev, now, later)
      [] ev.code = KEY_VOLUMEUP -> OnVolumeUp(st, ev, backlight)
      [] ev.code = KEY_VOLUMEDOWN -> OnVolumeDown(st, ev, backlight)
      [] ev.code = SW_LID -> OnLid(st, ev, later)
      [] OTHER -> st

\* lines 97-186: the class filter, then the switch on ev.code alone
Dispatch(st, ev, now, later, backlight) ==
    IF ev.type # EV_KEY /\ ev.type # EV_SW THEN st
    ELSE CASE ev.code = BTN_MODE -> OnMode(st, ev)
           [] ev.code = KEY_POWER -> OnPower(st, ev, now, later)
           [] ev.code = KEY_VOLUMEUP -> OnVolumeUp(st, ev, backlight)
           [] ev.code = KEY_VOLUMEDOWN -> OnVolumeDown(st, ev, backlight)
           [] ev.code = SW_LID -> OnLid(st, ev, later)
           [] OTHER -> st

\* LongHold with > for >=
LongHold_Strict(held, press, now) ==
    held /\ ElapsedMs(now, press) > LONG_PRESS_MS

\* the end-of-tick check of lines 190-198
LongHold(held, press, now) ==
    held /\ ElapsedMs(now, press) >= LONG_PRESS_MS

(***************************************************************************)
(* input_monitor_init and find_device_by_name.                             *)
(***************************************************************************)
\* no descriptor is open
NoHandles == [fd \in Fds |-> 0]

\* open(path, O_RDONLY | O_NONBLOCK) of line 35: the lowest free descriptor,
\* or -1 (EMFILE) when the table is full
Open(tab) ==
    IF \E fd \in Fds : tab[fd] = 0
    THEN CHOOSE fd \in Fds : tab[fd] = 0 /\ \A g \in Fds : tab[g] = 0 => fd <= g
    ELSE NoFd

\* Close that leaves the descriptor open
Close_Nothing(tab, fd) == tab

\* close(fd): the table afterwards
Close(tab, fd) == [tab EXCEPT ![fd] = 0]

\* find_device_by_name, lines 20-52, from the j-th entry of the directory on:
\* the descriptor of the first node that opens and whose name contains
\* device_name, or -1, with the descriptor table afterwards
RECURSIVE find_device_by_name(_, _, _, _)
find_device_by_name(device_name, nodes, tab, j) ==
    IF j > Len(nodes) THEN [fd |-> NoFd, tab |-> tab]
    ELSE LET fd == Open(tab)
         IN  IF fd < 0 THEN find_device_by_name(device_name, nodes, tab, j + 1)
             ELSE IF StrStr(nodes[j], device_name)
             THEN [fd |-> fd, tab |-> [tab EXCEPT ![fd] = j]]
             ELSE find_device_by_name(device_name, nodes,
                                      Close([tab EXCEPT ![fd] = j], fd), j + 1)

\* the loop of lines 63-74 from index k on: st = [fds, n, tab]
RECURSIVE InitLoop(_, _, _)
InitLoop(k, st, nodes) ==
    IF k > MAX_INPUT_DEVICES THEN st
    ELSE LET r == find_device_by_name(device_names[k], nodes, st.tab, 1)
         IN  IF r.fd >= 0 /\ st.n < MAX_INPUT_DEVICES
             THEN InitLoop(k + 1,
                           [fds |-> [st.fds EXCEPT ![st.n] = r.fd],
                            n |-> st.n + 1, tab |-> r.tab],
                           nodes)
             ELSE InitLoop(k + 1, [st EXCEPT !.tab = r.tab], nodes)

\* descriptors the monitor reads: input_fds[0 .. num_devices-1] that are >= 0
OpenFds == {input_fds[k] : k \in 0..(num_devices - 1)} \ {NoFd}

(***************************************************************************)
(* Initial state: the static initialisers of lines 10-18.                  *)
(***************************************************************************)
StaticInit ==
    /\ input_fds = [k \in 0..(MAX_INPUT_DEVICES - 1) |-> NoFd]
    /\ num_devices = 0
    /\ power_press_time = ZeroTime
    /\ last_wake_time = ZeroTime
    /\ power_button_held = FALSE
    /\ mode_button_held = FALSE
    /\ current_brightness = BRIGHTNESS_DEFAULT
    /\ queue = EmptyQueues
    /\ fdtab = NoHandles
    /\ failing = {}
    /\ error_reads = [fd \in Fds |-> 0]
    /\ ebadf = FALSE
    /\ pc = "idle"
    /\ i = 0
    /\ ret = "none"
    /\ emitted = <<>>
    /\ cur = NoEvent
    /\ was_held = FALSE
    /\ in_window = FALSE
    /\ cycle_shutdowns = 0
    /\ wake_cause = "none"
    /\ edge_stamp = ZeroTime

\* what a step that reads no event leaves in the observation variables
Quiet ==
    /\ emitted' = <<>>
    /\ cur' = NoEvent
    /\ was_held' = FALSE
    /\ in_window' = FALSE

(***************************************************************************)
(* Environment steps.                                                      *)
(***************************************************************************)
\* CLOCK_MONOTONIC advances
Advance ==
    /\ \E m \in NotBefore(mono) \ {mono} : mono' = m
    /\ UNCHANGED menu
    /\ ret' = "none"
    /\ Quiet
    /\ UNCHANGED <<input_fds, num_devices, progvars, backlight_on, present,
                   handles, queue, pc, i, cycle_shutdowns, wake_cause, edge_stamp>>

\* the kernel queues an event of the set E on an opened device
Arrive(E) ==
    /\ Pending < MaxPending
    /\ UNCHANGED menu
    /\ \E fd \in OpenFds :
         \E ev \in {e \in E : Stamped(e, ZeroTime) \in DeviceEvents(present[fdtab[fd]])} :
           queue' = [queue EXCEPT ![fd] = Append(@, ev)]
    /\ ret' = "none"
    /\ Quiet
    /\ UNCHANGED <<input_fds, num_devices, progvars, backlight_on, present,
                   handles, mono, pc, i, cycle_shutdowns, wake_cause, edge_stamp>>

\* a device is unplugged or breaks: from now on read() of a descriptor open
\* on it fails (ENODEV, EIO)
Unplug ==
    /\ \E fd \in OpenFds \ failing : failing' = failing \cup {fd}
    /\ UNCHANGED menu
    /\ ret' = "none"
    /\ Quiet
    /\ UNCHANGED <<input_fds, num_devices, progvars, backlight_on, present,
                   fdtab, error_reads, ebadf, queue, mono, pc, i,
                   cycle_shutdowns, wake_cause, edge_stamp>>

\* the rest of the launcher switches the backlight on or off between ticks
ToggleBacklight ==
    /\ pc = "idle"
    /\ UNCHANGED menu
    /\ backlight_on' = ~backlight_on
    /\ ret' = "none"
    /\ Quiet
    /\ UNCHANGED <<input_fds, num_devices, progvars, present, handles, queue,
                   mono, pc, i, cycle_shutdowns, wake_cause, edge_stamp>>

(***************************************************************************)
(* input_monitor_init, lines 54-84.                                        *)
(***************************************************************************)
MonitorInit ==
    /\ pc = "idle"
    /\ UNCHANGED menu
    /\ LET st == InitLoop(1, [fds |-> input_fds, n |-> 0, tab |-> fdtab], present)
       IN  /\ input_fds' = st.fds
           /\ num_devices' = st.n
           /\ fdtab' = st.tab
           /\ ret' = IF st.n = 0 THEN "false" ELSE "true"
    \* a descriptor just opened has nothing queued; what is queued on a
    \* descriptor the monitor has stopped reading is not kept
    /\ queue' = EmptyQueues
    /\ Quiet
    /\ UNCHANGED <<progvars, backlight_on, present, failing, error_reads, ebadf,
                   mono, pc, i, cycle_shutdowns, wake_cause, edge_stamp>>

(***************************************************************************)
(* input_monitor_cleanup, lines 203-216.                                   *)
(***************************************************************************)
\* the loop of lines 204-209 from index k on: st = [fds, tab, bad], where bad
\* says that a close() was given a descriptor that was not open
RECURSIVE CleanupLoop(_, _, _)
CleanupLoop(k, n, st) ==
    IF k >= n THEN st
    ELSE IF st.fds[k] >= 0
    THEN CleanupLoop(k + 1, n,
                     [fds |-> [st.fds EXCEPT ![k] = NoFd],
                      tab |-> Close(st.tab, st.fds[k]),
                      bad |-> st.bad \/ st.tab[st.fds[k]] = 0])
    ELSE CleanupLoop(k + 1, n, st)

MonitorCleanup ==
    /\ pc = "idle"
    /\ UNCHANGED menu
    /\ LET st == CleanupLoop(0, num_devices,
                             [fds |-> input_fds, tab |-> fdtab, bad |-> ebadf])
       IN  /\ input_fds' = st.fds
           /\ fdtab' = st.tab
           /\ ebadf' = st.bad
    \* a closed descriptor has no queue and no error state
    /\ queue' = [fd \in Fds |-> IF fd \in OpenFds THEN <<>> ELSE queue[fd]]
    /\ failing' = failing \ OpenFds
    /\ error_reads' = [fd \in Fds |-> IF fd \in OpenFds THEN 0 ELSE error_reads[fd]]
    /\ num_devices' = 0
    /\ mode_button_held' = FALSE
    /\ power_button_held' = FALSE
    /\ ret' = "void"
    /\ Quiet
    /\ UNCHANGED <<power_press_time, last_wake_time, current_brightness,
                   backlight_on, present, mono, pc, i, cycle_shutdowns, wake_cause, edge_stamp>>

(***************************************************************************)
(* input_monitor_check_hotkeys, lines 86-201.                              *)
(***************************************************************************)
\* the call: i = 0 of line 90
TickStart ==
    /\ pc = "idle"
    /\ UNCHANGED menu
    /\ pc' = "drain"
    /\ i' = 0
    /\ ret' = "none"
    /\ Quiet
    /\ UNCHANGED <<input_fds, num_devices, progvars, backlight_on, present,
                   handles, queue, mono, cycle_shutdowns, wake_cause, edge_stamp>>

\* read() of line 95 returns an event, and the loop body handles it
ReadEvent ==
    /\ pc = "drain"
    /\ UNCHANGED menu
    /\ i < num_devices
    /\ input_fds[i] >= 0
    /\ input_fds[i] \notin failing
    /\ queue[input_fds[i]] # <<>>
    /\ LET fd == input_fds[i]
           ev == Head(queue[fd])
           now == ClockGettime(mono)
       IN  \E m \in NotBefore(mono) :
             LET st == Dispatch(State, ev, now, ClockGettime(m), backlight_on)
                 edge == ~power_button_held /\ st.held
             IN  /\ queue' = [queue EXCEPT ![fd] = Tail(@)]
                 \* a system() call takes time; nothing else in the body does
                 /\ (st.out = <<>> => m = mono)
                 /\ mono' = m
                 /\ mode_button_held' = st.mode
                 /\ power_button_held' = st.held
                 /\ power_press_time' = st.press
                 /\ last_wake_time' = st.wake
                 /\ current_brightness' = st.bright
                 /\ emitted' = st.out
                 /\ cur' = ev
                 /\ was_held' = power_button_held
                 /\ in_window' = (ElapsedMs(now, last_wake_time) < WAKE_DEBOUNCE_MS)
                 \* line 122 returns from the function
                 /\ pc' = IF st.shutdown THEN "idle" ELSE "drain"
                 /\ ret' = IF st.shutdown THEN "true" ELSE "none"
                 /\ cycle_shutdowns' =
                        IF edge THEN 0
                        ELSE IF st.shutdown /\ cycle_shutdowns < 2
                        THEN cycle_shutdowns + 1
                        ELSE cycle_shutdowns
                 /\ wake_cause' =
                        IF Suspend \in {st.out[k] : k \in 1..Len(st.out)}
                        THEN (IF ev.code = KEY_POWER THEN "power" ELSE "lid")
                        ELSE wake_cause
                 /\ edge_stamp' = IF edge THEN ev.time ELSE edge_stamp
    /\ UNCHANGED <<input_fds, num_devices, backlight_on, present, handles, i>>

\* ReadNone for an `if` in place of the `while` of line 95: on to the next
\* device whether or not more events are queued
ReadNone_AfterOne ==
    /\ pc = "drain"
    /\ UNCHANGED menu
    /\ i < num_devices
    /\ i' = i + 1
    /\ ret' = "none"
    /\ Quiet
    /\ UNCHANGED <<input_fds, num_devices, progvars, backlight_on, present,
                   handles, queue, mono, pc, cycle_shutdowns, wake_cause, edge_stamp>>

\* read() of line 95 returns no event (nothing queued: EAGAIN), or line 92
\* skips a closed slot: on to the next device
ReadNone ==
    /\ pc = "drain"
    /\ UNCHANGED menu
    /\ i < num_devices
    /\ \/ input_fds[i] < 0
       \/ input_fds[i] \notin failing /\ queue[input_fds[i]] = <<>>
    /\ i' = i + 1
    /\ ret' = "none"
    /\ Quiet
    /\ UNCHANGED <<input_fds, num_devices, progvars, backlight_on, present,
                   handles, queue, mono, pc, cycle_shutdowns, wake_cause, edge_stamp>>

\* read() of line 95 fails with an error other than EAGAIN: the while loop
\* ends as it does for EAGAIN, on to the next device
ReadError ==
    /\ pc = "drain"
    /\ UNCHANGED menu
    /\ i < num_devices
    /\ input_fds[i] >= 0
    /\ input_fds[i] \in failing
    /\ error_reads' = [error_reads EXCEPT ![input_fds[i]] = IF @ < 2 THEN @ + 1 ELSE @]
    /\ i' = i + 1
    /\ ret' = "none"
    /\ Quiet
    /\ UNCHANGED <<input_fds, num_devices, progvars, backlight_on, present,
                   fdtab, failing, ebadf, queue, mono, pc, cycle_shutdowns,
                   wake_cause, edge_stamp>>

\* lines 190-200: the long-hold check and the return
EndOfTick ==
    /\ pc = "drain"
    /\ UNCHANGED menu
    /\ i >= num_devices
    /\ LET shutdown == LongHold(power_button_held, power_press_time, ClockGettime(mono))
       IN  /\ ret' = IF shutdown THEN "true" ELSE "false"
           /\ cycle_shutdowns' =
                  IF shutdown /\ cycle_shutdowns < 2
                  THEN cycle_shutdowns + 1 ELSE cycle_shutdowns
    /\ pc' = "idle"
    /\ Quiet
    /\ UNCHANGED <<input_fds, num_devices, progvars, backlight_on, present,
                   handles, queue, mono, i, wake_cause, edge_stamp>>

(***************************************************************************)
(* SpecPower: the monitor after a successful input_monitor_init on a       *)
(* device with the power key and the gpio keys, fed power-button and lid   *)
(* events while the clock runs from 0: the timing of the power button.     *)
(***************************************************************************)
Opened(nodes) ==
    InitLoop(1, [fds |-> [k \in 0..(MAX_INPUT_DEVICES - 1) |-> NoFd], n |-> 0,
                 tab |-> NoHandles], nodes)

InitPower ==
    /\ power_press_time = ZeroTime
    /\ MenuStart
    /\ last_wake_time = ZeroTime
    /\ power_button_held = FALSE
    /\ mode_button_held = FALSE
    /\ current_brightness = BRIGHTNESS_DEFAULT
    /\ present = <<PwrkeyName, GpioName>>
    /\ input_fds = Opened(present).fds
    /\ num_devices = Opened(present).n
    /\ fdtab = Opened(present).tab
    /\ failing = {}
    /\ error_reads = [fd \in Fds |-> 0]
    /\ ebadf = FALSE
    /\ backlight_on = TRUE
    /\ queue = EmptyQueues
    /\ mono = <<0, 0>>
    /\ pc = "idle"
    /\ i = 0
    /\ ret = "none"
    /\ emitted = <<>>
    /\ cur = NoEvent
    /\ was_held = FALSE
    /\ in_window = FALSE
    /\ cycle_shutdowns = 0
    /\ wake_cause = "none"
    /\ edge_stamp = ZeroTime

\* press and release edges of the power key, lid closed and opened
TimingEvents == {ev \in PowerEvents : ev.value # 2} \cup LidEvents

NextPower ==
    \/ Advance
    \/ Arrive(TimingEvents)
    \/ TickStart
    \/ ReadEvent
    \/ ReadNone
    \/ EndOfTick

SpecPower == InitPower /\ [][NextPower]_vars

(***************************************************************************)
(* SpecKeys: the whole interface (init, ticks, cleanup) from the static    *)
(* initial state, fed every kind of event, with all three device nodes     *)
(* there, long after boot and within one clock quantum: what the keys do   *)
(* apart from the timing.                                                  *)
(***************************************************************************)
InitKeys ==
    /\ StaticInit
    /\ MenuStart
    /\ present = <<JoypadName, PwrkeyName, GpioName>>
    /\ backlight_on \in BOOLEAN
    /\ mono = <<MaxQuanta, LastSubMs>>

NextKeys ==
    \/ Arrive(AllEvents)
    \/ ToggleBacklight
    \/ MonitorInit
    \/ MonitorCleanup
    \/ TickStart
    \/ ReadEvent
    \/ ReadNone
    \/ EndOfTick

SpecKeys == InitKeys /\ [][NextKeys]_vars

(***************************************************************************)
(* SpecBurst: the monitor after a successful input_monitor_init on a       *)
(* device with the power key alone, the clock running from 0 in whole      *)
(* quanta.  The kernel stamps each event with the time it is queued.  A    *)
(* tick takes no time: events are queued and the clock advances between    *)
(* ticks only, so that what a tick finds queued was queued before it       *)
(* started, and two events read in one tick are read at the same time.     *)
(***************************************************************************)
InitBurst ==
    /\ power_press_time = ZeroTime
    /\ MenuStart
    /\ last_wake_time = ZeroTime
    /\ power_button_held = FALSE
    /\ mode_button_held = FALSE
    /\ current_brightness = BRIGHTNESS_DEFAULT
    /\ present = <<PwrkeyName>>
    /\ input_fds = Opened(present).fds
    /\ num_devices = Opened(present).n
    /\ fdtab = Opened(present).tab
    /\ failing = {}
    /\ error_reads = [fd \in Fds |-> 0]
    /\ ebadf = FALSE
    /\ backlight_on = TRUE
    /\ queue = EmptyQueues
    /\ mono = <<0, 0>>
    /\ pc = "idle"
    /\ i = 0
    /\ ret = "none"
    /\ emitted = <<>>
    /\ cur = NoEvent
    /\ was_held = FALSE
    /\ in_window = FALSE
    /\ cycle_shutdowns = 0
    /\ wake_cause = "none"
    /\ edge_stamp = ZeroTime

\* the power key pressed and released
BurstEvents == {Event(EV_KEY, KEY_POWER, 1), Event(EV_KEY, KEY_POWER, 0)}

ArriveBetweenTicks ==
    /\ pc = "idle"
    /\ Arrive({Stamped(ev, ClockGettime(mono)) : ev \in BurstEvents})

AdvanceBetweenTicks ==
    /\ pc = "idle"
    /\ Advance
    /\ mono'[2] = mono[2]

ReadEventAtOnce ==
    /\ ReadEvent
    /\ mono' = mono

NextBurst ==
    \/ AdvanceBetweenTicks
    \/ ArriveBetweenTicks
    \/ TickStart
    \/ ReadEventAtOnce
    \/ ReadNone
    \/ EndOfTick

SpecBurst == InitBurst /\ [][NextBurst]_vars

(***************************************************************************)
(* SpecDevices: the whole interface from the static initial state, over    *)
(* every directory of up to MaxNodes event nodes with different names, in  *)
(* every readdir order; devices break while they are open.  One event of   *)
(* each device kind is fed, within one clock quantum.                      *)
(***************************************************************************)
NodeNames == {JoypadName, PwrkeyName, GpioName, GpioKeyName}

Directories ==
    {d \in UNION {[1..n -> NodeNames] : n \in 0..MaxNodes} :
        \A j, k \in DOMAIN d : d[j] = d[k] => j = k}

InitDevices ==
    /\ StaticInit
    /\ MenuStart
    /\ present \in Directories
    /\ backlight_on = TRUE
    /\ mono = <<MaxQuanta, LastSubMs>>

\* the mode button pressed, the power key released, the lid opened
ProbeEvents ==
    {Event(EV_KEY, BTN_MODE, 1), Event(EV_KEY, KEY_POWER, 0),
     Event(EV_SW, SW_LID, 0)}

NextDevices ==
    \/ Arrive(ProbeEvents)
    \/ Unplug
    \/ MonitorInit
    \/ MonitorCleanup
    \/ TickStart
    \/ ReadEvent
    \/ ReadNone
    \/ ReadError
    \/ EndOfTick

SpecDevices == InitDevices /\ [][NextDevices]_vars

(***************************************************************************)
(* SpecOrder: the monitor after input_monitor_init on a directory that     *)
(* lists the nodes in one readdir order or another, with or without the    *)
(* power key, within one clock quantum.  Events are queued between ticks   *)
(* only, so that what a tick finds queued was queued before it started.    *)
(***************************************************************************)
OrderDirectories ==
    {<<JoypadName, PwrkeyName, GpioName>>, <<GpioName, PwrkeyName, JoypadName>>,
     <<GpioName, GpioKeyName, JoypadName>>}

InitOrder ==
    /\ power_press_time = ZeroTime
    /\ MenuStart
    /\ last_wake_time = ZeroTime
    /\ power_button_held = FALSE
    /\ mode_button_held = FALSE
    /\ current_brightness = BRIGHTNESS_DEFAULT
    /\ present \in OrderDirectories
    /\ input_fds = Opened(present).fds
    /\ num_devices = Opened(present).n
    /\ fdtab = Opened(present).tab
    /\ failing = {}
    /\ error_reads = [fd \in Fds |-> 0]
    /\ ebadf = FALSE
    /\ backlight_on = TRUE
    /\ queue = EmptyQueues
    /\ mono = <<MaxQuanta, LastSubMs>>
    /\ pc = "idle"
    /\ i = 0
    /\ ret = "none"
    /\ emitted = <<>>
    /\ cur = NoEvent
    /\ was_held = FALSE
    /\ in_window = FALSE
    /\ cycle_shutdowns = 0
    /\ wake_cause = "none"
    /\ edge_stamp = ZeroTime

\* the mode button pressed and released, the power key pressed, volume up and
\* volume down pressed
OrderEvents ==
    {Event(EV_KEY, BTN_MODE, 1), Event(EV_KEY, BTN_MODE, 0),
     Event(EV_KEY, KEY_POWER, 1),
     Event(EV_KEY, KEY_VOLUMEUP, 1), Event(EV_KEY, KEY_VOLUMEDOWN, 1)}

QueueBetweenTicks ==
    /\ pc = "idle"
    /\ Arrive(OrderEvents)

NextOrder ==
    \/ QueueBetweenTicks
    \/ TickStart
    \/ ReadEvent
    \/ ReadNone
    \/ EndOfTick

SpecOrder == InitOrder /\ [][NextOrder]_vars

(***************************************************************************)
(* SpecClass: the monitor after input_monitor_init on the gpio-keys device *)
(* alone, the clock running from 0 in whole quanta between ticks.  The     *)
(* device reports the lid switch and a key whose code has the number of    *)
(* the lid switch's.                                                       *)
(***************************************************************************)
InitClass ==
    /\ power_press_time = ZeroTime
    /\ MenuStart
    /\ last_wake_time = ZeroTime
    /\ power_button_held = FALSE
    /\ mode_button_held = FALSE
    /\ current_brightness = BRIGHTNESS_DEFAULT
    /\ present = <<GpioName>>
    /\ input_fds = Opened(present).fds
    /\ num_devices = Opened(present).n
    /\ fdtab = Opened(present).tab
    /\ failing = {}
    /\ error_reads = [fd \in Fds |-> 0]
    /\ ebadf = FALSE
    /\ backlight_on = TRUE
    /\ queue = EmptyQueues
    /\ mono = <<0, 0>>
    /\ pc = "idle"
    /\ i = 0
    /\ ret = "none"
    /\ emitted = <<>>
    /\ cur = NoEvent
    /\ was_held = FALSE
    /\ in_window = FALSE
    /\ cycle_shutdowns = 0
    /\ wake_cause = "none"
    /\ edge_stamp = ZeroTime

\* the lid closed and opened, the key of code 0 pressed and released
ClassEvents == LidEvents \cup ReservedKeyEvents

NextClass ==
    \/ AdvanceBetweenTicks
    \/ Arrive(ClassEvents)
    \/ TickStart
    \/ ReadEvent
    \/ ReadNone
    \/ EndOfTick

SpecClass == InitClass /\ [][NextClass]_vars

(***************************************************************************)
(* SpecMenu: the launcher's menu (main.c) after main has scanned the games *)
(* of each system, fed the gamepad buttons that handle_input has a case    *)
(* for.  The input monitor stays as its static initialisers leave it.      *)
(***************************************************************************)
\* scan_games, lines 128-175: the game_count it leaves for a system with
\* `files` ROM files
ScanGames(files) == IF files < MAX_GAMES THEN files ELSE MAX_GAMES

InitMenu ==
    /\ StaticInit
    /\ present = <<>>
    /\ backlight_on = TRUE
    /\ mono = <<0, 0>>
    /\ current_system = 0
    /\ current_game = 0
    /\ in_game_list = FALSE
    /\ \E files \in [0..(MAX_SYSTEMS - 1) -> 0..MaxGames] :
         game_count = [k \in 0..(MAX_SYSTEMS - 1) |-> ScanGames(files[k])]
    /\ launched = NoLaunch

\* what a button leaves alone: the input monitor and its environment
MonitorIdle ==
    UNCHANGED <<input_fds, num_devices, progvars, backlight_on, present,
                handles, queue, mono, pc, i, ret, emitted, cur, was_held,
                in_window, cycle_shutdowns, wake_cause, edge_stamp>>

\* case SDL_CONTROLLER_BUTTON_DPAD_UP, lines 445-451
DpadUp ==
    /\ IF in_game_list
       THEN /\ current_game' = IF current_game > 0 THEN current_game - 1
                                ELSE current_game
            /\ UNCHANGED current_system
       ELSE /\ current_system' = IF current_system > 0 THEN current_system - 1
                                  ELSE current_system
            /\ UNCHANGED current_game
    /\ launched' = NoLaunch
    /\ UNCHANGED <<in_game_list, game_count>>
    /\ MonitorIdle

\* DpadDown that stops one entry too late
DpadDown_PastEnd ==
    /\ IF in_game_list
       THEN /\ current_game' = IF current_game < game_count[current_system]
                                THEN current_game + 1 ELSE current_game
            /\ UNCHANGED current_system
       ELSE /\ current_system' = IF current_system < MAX_SYSTEMS - 1
                                  THEN current_system + 1 ELSE current_system
            /\ UNCHANGED current_game
    /\ launched' = NoLaunch
    /\ UNCHANGED <<in_game_list, game_count>>
    /\ MonitorIdle

\* case SDL_CONTROLLER_BUTTON_DPAD_DOWN, lines 453-460
DpadDown ==
    /\ IF in_game_list
       THEN /\ current_game' = IF current_game < game_count[current_system] - 1
                                THEN current_game + 1 ELSE current_game
            /\ UNCHANGED current_system
       ELSE /\ current_system' = IF current_system < MAX_SYSTEMS - 1
                                  THEN current_system + 1 ELSE current_system
            /\ UNCHANGED current_game
    /\ launched' = NoLaunch
    /\ UNCHANGED <<in_game_list, game_count>>
    /\ MonitorIdle

\* case SDL_CONTROLLER_BUTTON_A, lines 462-475; launch_game (lines 386-435)
\* runs the emulator and returns without touching the menu's state
ButtonA ==
    /\ IF in_game_list
       THEN /\ launched' = IF game_count[current_system] > 0
                            THEN [sys |-> current_system, game |-> current_game]
                            ELSE NoLaunch
            /\ UNCHANGED <<in_game_list, current_game>>
       ELSE /\ launched' = NoLaunch
            /\ IF game_count[current_system] > 0
               THEN in_game_list' = TRUE /\ current_game' = 0
               ELSE UNCHANGED <<in_game_list, current_game>>
    /\ UNCHANGED <<current_system, game_count>>
    /\ MonitorIdle

\* case SDL_CONTROLLER_BUTTON_B, lines 477-482
ButtonB ==
    /\ IF in_game_list
       THEN in_game_list' = FALSE /\ current_game' = 0
       ELSE UNCHANGED <<in_game_list, current_game>>
    /\ launched' = NoLaunch
    /\ UNCHANGED <<current_system, game_count>>
    /\ MonitorIdle

NextMenu ==
    \/ DpadUp
    \/ DpadDown
    \/ ButtonA
    \/ ButtonB

SpecMenu == InitMenu /\ [][NextMenu]_vars

(***************************************************************************)
(* Properties.  A step that reads and handles an event ev is the step with *)
(* cur' = ev; in such a step the unprimed variables are the state the      *)
(* handler found, and Now is the clock value it read for `now`.            *)
(***************************************************************************)
PowerPress == Event(EV_KEY, KEY_POWER, 1)

PowerRelease == Event(EV_KEY, KEY_POWER, 0)

LidClose == Event(EV_SW, SW_LID, 1)

LidOpen == Event(EV_SW, SW_LID, 0)

VolumeUpPress == Event(EV_KEY, KEY_VOLUMEUP, 1)

VolumeDownPress == Event(EV_KEY, KEY_VOLUMEDOWN, 1)

Now == ClockGettime(mono)

\* held_ms of line 117 and last_wake_ms of line 124, for an event read now
HeldMs == ElapsedMs(Now, power_press_time)

SinceWakeMs == ElapsedMs(Now, last_wake_time)

\* the step handles the release edge that ends a press cycle
ReleaseStep == cur' = PowerRelease /\ power_button_held

\* a step of a tick returns from the tick
ReturnStep == pc = "drain" /\ pc' = "idle"

(* C1: a power release edge processed with a hold time below 1750 ms, 500 ms
   or more after last_wake_timestamp, emits exactly one Suspend and sets
   last_wake_timestamp to the clock read after it; no tick of that press
   cycle, this one included, has returned shutdown_requested = true. *)
C1_ShortPressSuspends ==
    [][(ReleaseStep /\ HeldMs < LONG_PRESS_MS /\ SinceWakeMs >= WAKE_DEBOUNCE_MS)
         => /\ emitted' = <<Suspend>>
            /\ last_wake_time' = ClockGettime(mono')
            /\ ~power_button_held'
            /\ ret' = "none" /\ pc' = "drain"
            /\ cycle_shutdowns' = 0]_vars

\* a press held for a second or more and released as a short press suspended
C1_Witness ==
    /\ cur = PowerRelease /\ was_held /\ ~in_window
    /\ emitted = <<Suspend>>
    /\ cycle_shutdowns = 0
    /\ ElapsedMs(last_wake_time, power_press_time) >= 2 * WAKE_DEBOUNCE_MS

(* C2: a power release edge processed with a hold time of 1750 ms or more
   makes the tick return true at once, emits no Suspend and leaves
   last_wake_timestamp alone, inside the debounce window as well as outside. *)
C2_LongPressShutsDown ==
    [][(ReleaseStep /\ HeldMs >= LONG_PRESS_MS)
         => /\ ret' = "true" /\ pc' = "idle"
            /\ emitted' = <<>>
            /\ last_wake_time' = last_wake_time
            /\ ~power_button_held']_vars

\* a long press released less than 500 ms after a Suspend reported Shutdown
C2_Witness ==
    /\ cur = PowerRelease /\ was_held /\ in_window
    /\ wake_cause # "none"
    /\ ret = "true" /\ pc = "idle"
    /\ emitted = <<>>

(* C3: shutdown is signalled at most once per power press cycle: after a tick
   has returned true for a held power button, no later tick of the same
   press cycle returns true. *)
C3_ShutdownOncePerCycle == cycle_shutdowns <= 1

(* C4: the step that returns from a tick returns true exactly when it is the
   handling of a power release edge with a hold time of 1750 ms or more, or
   the end-of-tick check with the power button held for 1750 ms or more;
   handling such a release edge always returns from the tick, and handling
   any other event never does. *)
C4_ShutdownIff ==
    [][/\ ReturnStep =>
            (ret' = "true" <=>
                \/ ReleaseStep /\ HeldMs >= LONG_PRESS_MS
                \/ cur' = NoEvent /\ power_button_held /\ HeldMs >= LONG_PRESS_MS)
       /\ (ReleaseStep /\ HeldMs >= LONG_PRESS_MS) => ReturnStep
       /\ (pc = "drain" /\ ret' = "true") => ReturnStep
       /\ (ReturnStep /\ cur' # NoEvent) => ret' = "true"]_vars

\* a tick returned true for a button still held, with no release edge read
C4_Witness ==
    /\ pc = "idle" /\ ret = "true" /\ cur = NoEvent
    /\ power_button_held
    /\ HeldMs >= LONG_PRESS_MS

(* C5, as stated: no Suspend, from the power button or from the lid, is
   emitted less than 500 ms after a previous Suspend set last_wake_timestamp. *)
C5_NoSuspendInWindow ==
    [][(emitted' = <<Suspend>> /\ wake_cause # "none")
         => SinceWakeMs >= WAKE_DEBOUNCE_MS]_vars

(* C5, amended: no Suspend from the power button is emitted less than 500 ms
   after last_wake_timestamp was set; the lid is exempt. *)
C5_NoPowerSuspendInWindow ==
    [][(emitted' = <<Suspend>> /\ cur'.code = KEY_POWER)
         => SinceWakeMs >= WAKE_DEBOUNCE_MS]_vars

\* a press released inside the window of a lid Suspend was dropped
C5_Witness ==
    /\ cur = PowerRelease /\ was_held /\ in_window
    /\ wake_cause = "lid"
    /\ emitted = <<>> /\ ret = "none"
    /\ ~power_button_held

(* C6, as stated: a short power press whose press edge comes less than 500 ms
   after the Suspend of the previous short press produces no action. *)
C6_SecondPressNoAction ==
    [][(/\ ReleaseStep /\ HeldMs < LONG_PRESS_MS
        /\ wake_cause = "power"
        /\ ElapsedMs(power_press_time, last_wake_time) < WAKE_DEBOUNCE_MS)
         => emitted' = <<>> /\ ret' # "true"]_vars

(* C6, amended: a short power press whose release edge is processed less
   than 500 ms after the Suspend of the previous short press produces no
   action and leaves last_wake_timestamp alone. *)
C6_SecondReleaseNoAction ==
    [][(/\ ReleaseStep /\ HeldMs < LONG_PRESS_MS
        /\ wake_cause = "power"
        /\ SinceWakeMs < WAKE_DEBOUNCE_MS)
         => /\ emitted' = <<>> /\ ret' = "none" /\ pc' = "drain"
            /\ last_wake_time' = last_wake_time
            /\ ~power_button_held']_vars

\* the second of two short presses, pressed and released after the Suspend
\* of the first and inside its window, was dropped
C6_Witness ==
    /\ cur = PowerRelease /\ was_held /\ in_window
    /\ wake_cause = "power"
    /\ ElapsedMs(power_press_time, last_wake_time) > 0
    /\ emitted = <<>> /\ ret = "none"

(* C7: handling a lid event with value 1 always emits exactly one Suspend and
   sets last_wake_timestamp to the clock read after it, whatever mode_held
   and power_held are and however long ago last_wake_timestamp was set, and
   changes nothing else; handling a lid event with value 0 emits nothing and
   changes no state. *)
C7_LidCloseSuspends ==
    [][/\ cur' = LidClose =>
            /\ emitted' = <<Suspend>>
            /\ last_wake_time' = ClockGettime(mono')
            /\ ret' = "none" /\ pc' = "drain"
            /\ UNCHANGED <<mode_button_held, power_button_held,
                           power_press_time, current_brightness>>
       /\ cur' = LidOpen =>
            /\ emitted' = <<>>
            /\ ret' = "none" /\ pc' = "drain"
            /\ UNCHANGED <<progvars, mono>>]_vars

\* the lid closed less than 500 ms after the previous Suspend, with the mode
\* and power buttons held, and suspended again
C7_Witness ==
    /\ cur = LidClose /\ in_window
    /\ mode_button_held /\ power_button_held /\ was_held
    /\ emitted = <<Suspend>>

(* C8: handling a volume-up press while mode_held is true and the backlight
   is enabled raises brightness_level by 16 and emits one SetBrightness for
   the new level, unless the level is 100: then the level stays and nothing
   is emitted.  Volume-down lowers it by 16 likewise, unless it is 4. *)
C8_BrightnessStep ==
    [][/\ (cur' = VolumeUpPress /\ mode_button_held /\ backlight_on) =>
            IF current_brightness = 100
            THEN current_brightness' = 100 /\ emitted' = <<>>
            ELSE /\ current_brightness' = current_brightness + 16
                 /\ emitted' = <<SetBrightness((current_brightness' * 255) \div 100)>>
       /\ (cur' = VolumeDownPress /\ mode_button_held /\ backlight_on) =>
            IF current_brightness = 4
            THEN current_brightness' = 4 /\ emitted' = <<>>
            ELSE /\ current_brightness' = current_brightness - 16
                 /\ emitted' = <<SetBrightness((current_brightness' * 255) \div 100)>>]_vars

\* a volume-up press at the highest level did nothing
C8_Witness ==
    /\ cur = VolumeUpPress
    /\ mode_button_held /\ backlight_on
    /\ current_brightness = 100
    /\ emitted = <<>>

(* C9: brightness_level is always one of 4, 20, 36, 52, 68, 84, 100, and the
   raw backlight value written for it is within 10..255. *)
C9_BrightnessInRange ==
    /\ current_brightness \in {4, 20, 36, 52, 68, 84, 100}
    /\ (current_brightness * 255) \div 100 \in 10..255
    /\ \A k \in 1..Len(emitted) :
           emitted[k].act = "SetBrightness" => emitted[k].arg \in 10..255

\* a step down reached the lowest level, written as 10
C9_Witness ==
    /\ current_brightness = 4
    /\ cur = VolumeDownPress
    /\ emitted = <<SetBrightness(10)>>

(* C10: handling a volume-up or volume-down press while mode_held is false
   or the backlight is disabled emits exactly one AdjustVolume, +5 for up
   and -5 for down, and leaves brightness_level alone. *)
C10_VolumeStep ==
    [][/\ (cur' = VolumeUpPress /\ ~(mode_button_held /\ backlight_on)) =>
            /\ emitted' = <<AdjustVolume(5)>>
            /\ current_brightness' = current_brightness
       /\ (cur' = VolumeDownPress /\ ~(mode_button_held /\ backlight_on)) =>
            /\ emitted' = <<AdjustVolume(-5)>>
            /\ current_brightness' = current_brightness]_vars

\* a volume-up press with the mode button held and the backlight off
\* changed the volume
C10_Witness ==
    /\ cur = VolumeUpPress
    /\ mode_button_held /\ ~backlight_on
    /\ emitted = <<AdjustVolume(5)>>

(* C11: when a tick returns, with true or with false, no event that was
   queued on an open source when the tick started is left unread.  Under
   SpecBurst events are queued between ticks only, so what is queued when a
   tick has just returned was queued before that tick started. *)
C11_TickDrainsAll ==
    (pc = "idle" /\ ret \in {"true", "false"})
        => \A fd \in OpenFds : queue[fd] = <<>>

(* C12: a source on which a read has failed with an error other than
   would-block is marked dead and is not read again on any later tick: no
   descriptor has a second failed read. *)
C12_DeadSourceNotRead == \A fd \in Fds : error_reads[fd] <= 1

\* the step is a call of input_monitor_init
InitStep == pc = "idle" /\ ret' \in {"true", "false"}

\* the step is a call of input_monitor_cleanup
CleanupStep == ret' = "void"

\* the nodes whose name contains device_names[k]
RoleNodes(k) == {j \in DOMAIN present : StrStr(present[j], device_names[k])}

\* the roles some node matches, and how many of them come before role k
Matchable == {k \in 1..MAX_INPUT_DEVICES : RoleNodes(k) # {}}

Rank(k) == Cardinality({h \in Matchable : h < k})

\* the descriptors that are free when a call starts
FreeFds == {fd \in Fds : fdtab[fd] = 0}

\* the roles that resolve to an open device: a role some node matches, while
\* open() still has a descriptor to give
Resolved == {k \in Matchable : Rank(k) < Cardinality(FreeFds)}

(* C13: init returns false exactly when no role resolved to an open device.
   Otherwise it returns true, and input_fds[0 .. num_devices-1] holds one
   descriptor per resolved role, in the order of the roles, each opened by
   this call on the first node that matches the role.  The call leaves no
   other descriptor changed: on failure it leaves open none that it opened,
   and the candidates that did not match are closed.  An unresolved role is
   not retried: the ticks never change input_fds, num_devices or the
   descriptor table. *)
C13_InitResolvesRoles ==
    /\ [][InitStep =>
            /\ (ret' = "false") <=> (Resolved = {})
            /\ num_devices' = Cardinality(Resolved)
            /\ \A k \in Resolved :
                 /\ input_fds'[Rank(k)] \in FreeFds
                 /\ fdtab'[input_fds'[Rank(k)]] \in RoleNodes(k)
                 /\ \A j \in RoleNodes(k) : fdtab'[input_fds'[Rank(k)]] <= j
                 /\ \A h \in Resolved : h # k => input_fds'[Rank(h)] # input_fds'[Rank(k)]
            /\ \A fd \in Fds :
                 fd \notin {input_fds'[Rank(k)] : k \in Resolved}
                     => fdtab'[fd] = fdtab[fd]]_vars
    /\ [][~InitStep /\ ~CleanupStep
            => UNCHANGED <<input_fds, num_devices, fdtab>>]_vars

\* init has returned true with two of the three roles resolved, from a
\* directory of three nodes the first of which matches no role
C13_Witness ==
    /\ pc = "idle" /\ ret = "true"
    /\ num_devices = 2
    /\ Len(present) = 3 /\ present[1] = GpioKeyName
    /\ Cardinality({fd \in Fds : fdtab[fd] # 0}) = 2

(* C14: every handle the registry opens is closed exactly once.  When
   input_monitor_cleanup has just returned, after any sequence of init, tick
   and cleanup calls, no descriptor is open and no close() has been given a
   descriptor that was already closed. *)
C14_AllClosedAfterCleanup ==
    ret = "void" => (\A fd \in Fds : fdtab[fd] = 0) /\ ~ebadf

(* C15: power_button_held is the level of the last power edge processed: it
   is false at the start, a press edge (value 1) leaves it true, a release
   edge (value 0) leaves it false, and no other step of a tick changes it.
   A press edge processed while the button is held changes no state, so
   power_press_time stays as it is, and emits nothing; a release edge
   processed while it is not held changes no state and emits nothing. *)
C15_HeldFollowsEdges ==
    /\ ~power_button_held
    /\ [][/\ cur' = PowerPress =>
               /\ power_button_held'
               /\ power_button_held =>
                    /\ UNCHANGED progvars
                    /\ emitted' = <<>> /\ ret' = "none" /\ pc' = "drain"
          /\ cur' = PowerRelease =>
               /\ ~power_button_held'
               /\ ~power_button_held =>
                    /\ UNCHANGED progvars
                    /\ emitted' = <<>> /\ ret' = "none" /\ pc' = "drain"
          /\ cur' \notin {PowerPress, PowerRelease} =>
               power_button_held' = power_button_held]_vars

\* a press edge was processed while the button was held, QuantumMs or more
\* after the press that started the cycle
C15_Witness ==
    /\ cur = PowerPress /\ was_held
    /\ power_button_held
    /\ HeldMs >= QuantumMs

(* C16: mode_button_held is false at the start; a mode-button event leaves it
   true if its value is 1 or 2 and false if its value is 0, and no other step
   of a tick changes it.  A mode-button event emits no action and changes
   neither power_button_held, nor the two time stamps, nor the brightness. *)
C16_ModeFollowsEvents ==
    /\ ~mode_button_held
    /\ [][/\ cur' \in ModeEvents =>
               /\ mode_button_held' = (cur'.value \in {1, 2})
               /\ emitted' = <<>> /\ ret' = "none" /\ pc' = "drain"
               /\ UNCHANGED <<power_button_held, power_press_time,
                              last_wake_time, current_brightness>>
          /\ (cur' \notin ModeEvents /\ ~CleanupStep) =>
               mode_button_held' = mode_button_held]_vars

\* a repeat of the mode button was processed while the power button was held
\* and the brightness was off its default
C16_Witness ==
    /\ cur = Event(EV_KEY, BTN_MODE, 2)
    /\ mode_button_held
    /\ power_button_held
    /\ current_brightness # BRIGHTNESS_DEFAULT

\* the role of the node an open descriptor is on: the k with device_names[k]
\* in the name of the node
RoleOf(fd) ==
    CHOOSE k \in 1..MAX_INPUT_DEVICES : StrStr(present[fdtab[fd]], device_names[k])

(* C17: the slots input_fds[0 .. num_devices-1] hold the sources in the order
   mode, power, volume/lid, whatever the order of the directory and whichever
   roles are absent.  A tick starts at slot 0, reads the events of a slot in
   the order they were queued, and moves on to the next slot only when the
   current one has nothing queued: when an event is read, every earlier slot
   is empty.  So when a volume press is handled no mode-button event queued
   before the tick is still unread. *)
C17_SourcesInOrder ==
    /\ [](\A s, t \in 0..(num_devices - 1) :
            s < t => RoleOf(input_fds[s]) < RoleOf(input_fds[t]))
    /\ [][/\ (pc = "idle" /\ pc' = "drain") => i' = 0
          /\ (pc = "drain" /\ pc' = "drain") =>
                \/ i' = i
                \/ i' = i + 1 /\ queue[input_fds[i]] = <<>>
          /\ cur' # NoEvent =>
                /\ queue[input_fds[i]] # <<>>
                /\ cur' = Head(queue[input_fds[i]])
                /\ queue' = [queue EXCEPT ![input_fds[i]] = Tail(@)]
                /\ \A s \in 0..(i - 1) : queue[input_fds[s]] = <<>>
          /\ cur'.code \in {KEY_VOLUMEUP, KEY_VOLUMEDOWN} =>
                \A fd \in OpenFds : \A k \in 1..Len(queue[fd]) :
                    queue[fd][k].code # BTN_MODE]_vars

\* a tick has handled a mode-button press while a volume-up press is queued,
\* on a device whose directory lists the gpio keys before the joypad
C17_Witness ==
    /\ pc = "drain"
    /\ cur = Event(EV_KEY, BTN_MODE, 1) /\ mode_button_held
    /\ present[1] = GpioName
    /\ \E fd \in OpenFds :
         queue[fd] # <<>> /\ Head(queue[fd]) = Event(EV_KEY, KEY_VOLUMEUP, 1)

\* the events the claim calls ignored: of a class that is neither key nor
\* switch, of a code the switch has no case for, a repeat of the power key,
\* a repeat or a release of a volume key
IgnoredEvents ==
    {ev \in AllEvents :
        \/ ev.type \notin {EV_KEY, EV_SW}
        \/ ev.code \notin {BTN_MODE, KEY_POWER, KEY_VOLUMEUP, KEY_VOLUMEDOWN, SW_LID}
        \/ ev.code = KEY_POWER /\ ev.value = 2
        \/ ev.code \in {KEY_VOLUMEUP, KEY_VOLUMEDOWN} /\ ev.value \in {0, 2}}

(* C18: an ignored event (of a class that is neither key nor switch, of an
   unhandled code, a repeat of the power key, a repeat or a release of a
   volume key) emits no action, leaves mode_button_held, power_button_held,
   both time stamps and the brightness as they are, and the tick goes on
   reading the same source. *)
C18_IgnoredEventsNoOp ==
    [][cur' \in IgnoredEvents =>
          /\ emitted' = <<>>
          /\ UNCHANGED progvars
          /\ ret' = "none" /\ pc' = "drain" /\ i' = i]_vars

\* an event of another class with the code and the value of a lid close was
\* read and dropped while both buttons were held, with an event still queued
C18_Witness ==
    /\ cur = Event(3, SW_LID, 1)
    /\ pc = "drain"
    /\ power_button_held /\ mode_button_held
    /\ Pending > 0

(* C19: a power release edge processed with a hold time below 1750 ms, less
   than 500 ms after last_wake_timestamp, clears power_button_held, emits
   nothing and leaves last_wake_timestamp as it is.  Only a step that emits
   Suspend changes last_wake_timestamp, so the presses that are dropped do
   not move the window; and a short press released 500 ms or more after
   last_wake_timestamp suspends, whatever was dropped before it. *)
C19_DropKeepsWindow ==
    [][/\ (ReleaseStep /\ HeldMs < LONG_PRESS_MS /\ SinceWakeMs < WAKE_DEBOUNCE_MS)
            => /\ ~power_button_held'
               /\ last_wake_time' = last_wake_time
               /\ emitted' = <<>>
       /\ last_wake_time' # last_wake_time => emitted' = <<Suspend>>
       /\ (ReleaseStep /\ HeldMs < LONG_PRESS_MS /\ SinceWakeMs >= WAKE_DEBOUNCE_MS)
            => emitted' = <<Suspend>>]_vars

\* a press was dropped QuantumMs or more after the Suspend of a power press,
\* and last_wake_timestamp is still the time of that Suspend
C19_Witness ==
    /\ cur = PowerRelease /\ was_held /\ in_window
    /\ emitted = <<>>
    /\ ~power_button_held
    /\ wake_cause = "power"
    /\ SinceWakeMs >= QuantumMs

\* the time a is before the time b
TimeBefore(a, b) ==
    \/ a.tv_sec < b.tv_sec
    \/ a.tv_sec = b.tv_sec /\ a.tv_nsec < b.tv_nsec

\* the step handles a release edge in the tick that handled the press edge of
\* its cycle: the release was queued before the press was handled, or the step
\* before this one handled the press
SameTickRelease ==
    /\ cur'.code = KEY_POWER /\ cur'.value = 0
    /\ power_button_held
    /\ \/ TimeBefore(cur'.time, power_press_time)
       \/ pc = "drain" /\ cur.code = KEY_POWER /\ cur.value = 1 /\ ~was_held

(* C20: the hold time is taken from the monotonic clock as each edge is
   handled, not from the time stamp of the event: a press edge sets
   power_press_time to the clock, a release edge asks for shutdown exactly
   when the clock is 1750 ms or more past power_press_time, and a release
   edge handled in the tick that handled its press edge finds a hold time of
   0 ms and is a short press (Suspend, or dropped by the debounce; the tick
   does not return true), however far apart the kernel stamped the two. *)
C20_HoldFromClock ==
    [][/\ (cur'.code = KEY_POWER /\ cur'.value = 1 /\ ~power_button_held)
            => power_press_time' = ClockGettime(mono)
       /\ (cur'.code = KEY_POWER /\ cur'.value = 0 /\ power_button_held)
            => (ret' = "true" <=> HeldMs >= LONG_PRESS_MS)
       /\ SameTickRelease
            => /\ HeldMs = 0
               /\ ret' = "none" /\ pc' = "drain"
               /\ emitted' = <<Suspend>> \/ emitted' = <<>>]_vars

\* a release edge that the kernel stamped 1750 ms or more after the press
\* edge was handled in the same tick as the press edge, and caused a Suspend
C20_Witness ==
    /\ cur.code = KEY_POWER /\ cur.value = 0 /\ was_held
    /\ TimeBefore(cur.time, power_press_time)
    /\ ElapsedMs(cur.time, edge_stamp) >= LONG_PRESS_MS
    /\ emitted = <<Suspend>> /\ ret = "none"

(* C21: the lid branch is taken for switch events alone: handling a key
   event whose code is not the power key's, whatever its code and value,
   never emits Suspend and never changes last_wake_timestamp. *)
C21_LidPathSwitchOnly ==
    [][(cur'.type = EV_KEY /\ cur'.code # KEY_POWER)
          => /\ emitted' # <<Suspend>>
             /\ last_wake_time' = last_wake_time]_vars

(* C22: after any sequence of D-pad up, D-pad down, A and B presses,
   0 <= current_system < 4; whenever in_game_list is true the selected system
   has game_count > 0 and 0 <= current_game < game_count; a game launched
   with A is an entry of its system's list; and a button handled while
   in_game_list is true leaves current_system as it is. *)
C22_MenuIndicesValid ==
    /\ [](/\ current_system \in 0..(MAX_SYSTEMS - 1)
          /\ in_game_list =>
               /\ game_count[current_system] > 0
               /\ current_game \in 0..(game_count[current_system] - 1)
          /\ launched # NoLaunch =>
               /\ launched.sys \in 0..(MAX_SYSTEMS - 1)
               /\ launched.game \in 0..(game_count[launched.sys] - 1))
    /\ [][in_game_list => current_system' = current_system]_vars

\* A launched the last game of the last system's list, reached by moving down
\* in the system menu and down in the game list
C22_Witness ==
    /\ in_game_list
    /\ launched = [sys |-> MAX_SYSTEMS - 1, game |-> game_count[MAX_SYSTEMS - 1] - 1]
    /\ launched.game > 0

=============================================================================
